---- MODULE Spec2Model ----
(***************************************************************************)
(* A model of the archive side (s3_bucket_util.py) and of the schema/query *)
(* compiler (rds_query_utils.py) of TB-Python-SQL-Pull.                    *)
(*                                                                         *)
(* The object store is a map from keys to objects.  A key is a record      *)
(*   [area, folder, file, date]                                            *)
(* standing for the string the code concatenates:                          *)
(*   project_folder + active_folder + file                (area "active")  *)
(*   project_folder + archive_folder + <folder> + "/"     (file "/")       *)
(*   ... + <folder> + "/" + "Duplicates.csv"                               *)
(*   ... + <folder> + "/" + "Archived-Data-" + <date> + ".csv"             *)
(* <folder> and <date> are readings of the clock at second resolution.     *)
(* list_objects_v2, put_object and delete_object act on single keys, as    *)
(* the store does: a "folder" exists as long as some key has its prefix.   *)
(***************************************************************************)
EXTENDS Integers, Sequences, FiniteSets, TLC

\* ---------------------------------------------------------------- bounds
MaxTime == 3        \* readings of the clock: 1..MaxTime
MaxLimit == 2       \* the archive limit is drawn from 1..MaxLimit
MaxCalls == 3       \* calls of the public functions in one behaviour
MaxJoins == 3       \* items of a join list: 0..MaxJoins
MaxRows == 3        \* rows a cursor returns: 0..MaxRows
MaxPulls == 2       \* method calls on one constructed RDS object

\* ------------------------------------------------------ program constants
max_iterations == 150

Frames == {"d1", "d2"}          \* the DataFrames handed to the functions
FileNames == {"report.csv"}     \* file_name of update_active_data

\* archive_package values: a dict is the sequence of its (section, content)
\* items in insertion order; RDS.archive starts as the list [] (no dict).
RdsPackage == [isdict |-> TRUE,
               items |-> <<[section |-> "Duplicates", content |-> "d2"],
                           [section |-> "Data", content |-> "d1"]>>]
Packages ==
    { RdsPackage,
      [isdict |-> TRUE,
       items |-> <<[section |-> "Data", content |-> "d1"],
                   [section |-> "Duplicates", content |-> "d2"]>>],
      [isdict |-> TRUE, items |-> <<[section |-> "Steps", content |-> "d1"]>>],
      [isdict |-> FALSE, items |-> <<>>] }

VARIABLES
    store,              \* key -> [lm, body]: the bucket
    now,                \* the latest reading of the clock (seconds)
    limit,              \* the configured archive limit
    pc,                 \* position of the running call
    call,               \* the public function running or last run
    result,             \* "running", "returned" or "raised"
    err,                \* the failure raised ("none" when none)
    deletes,            \* delete_object calls the call has completed
    deleted,            \* the folders whose key the call has deleted
    puts,               \* the keys the call has put, in order
    store0,             \* the store when the call began
    calls,              \* calls begun
    scan_empty,         \* monitor: listed folders whose listing had no Contents
    subfolders,         \* monitor: result['CommonPrefixes']
    folder_count,       \* monitor: len(subfolders)
    iteration_counter,  \* monitor
    oldest_folder_key,  \* monitor: folder_dates[0][0]
    count0,             \* sub-folder count of the first listing of the call
    date_folder,        \* add_archive: the new folder's timestamp
    package,            \* add_archive: archive_package
    remaining,          \* add_archive_package: items not yet visited
    file_name,          \* update_active_data: the file_name argument
    data,               \* update_active_data: the data argument
    query_package,      \* RDS.__init__: the query_package argument
    schema,             \* RDS.__init__: the schema argument
    exclude,            \* RDS.__init__: the exclude argument
    query,              \* RDS.__init__: the query argument
    source,             \* self.source
    join_list,          \* self.join_list
    self_schema,        \* self.schema
    self_query,         \* self.query
    qerr,               \* the exception RDS.__init__ raised ("none" when none)
    qpc,                \* position of RDS.__init__
    auto,               \* RDS.__init__: the auto argument
    cursor,             \* what self.cursor does in the latest query_to_df
    checked_df,         \* the df argument of the latest check_schema
    df,                 \* self.df
    duplicates,         \* self.duplicates
    archive,            \* self.archive
    fields_missing,     \* self.fields_missing
    check,              \* what the latest check_schema returned ("none": not called)
    perr,               \* the exception the latest method call raised
    method,             \* the method of the object called latest
    pulls               \* method calls made on the constructed object

archiveVars == <<store, now, limit, pc, call, result, err, deletes, deleted,
                 puts, store0, calls, scan_empty, subfolders, folder_count,
                 iteration_counter, oldest_folder_key, count0, date_folder,
                 package, remaining, file_name, data>>

compilerVars == <<query_package, schema, exclude, query, source, join_list,
                  self_schema, self_query, qerr, qpc>>

dataVars == <<auto, cursor, checked_df, df, duplicates, archive, fields_missing, check,
              perr, method, pulls>>

rdsVars == <<compilerVars, dataVars>>

vars == <<archiveVars, rdsVars>>

monitorVars == <<scan_empty, subfolders, folder_count, iteration_counter, oldest_folder_key, count0>>
addVars == <<date_folder, package, remaining>>
activeVars == <<file_name, data>>

\* ------------------------------------------------------------------ keys
ActiveKey(fn) == [area |-> "active", folder |-> 0, file |-> fn, date |-> 0]
FolderKey(f) == [area |-> "archive", folder |-> f, file |-> "/", date |-> 0]
DuplicatesKey(f) == [area |-> "archive", folder |-> f, file |-> "Duplicates.csv", date |-> 0]
DataKey(f, d) == [area |-> "archive", folder |-> f, file |-> "Archived-Data", date |-> d]

\* data.to_csv(): the text of the frame; put_object without Body stores "".
ToCsv(d) == <<"csv", d>>
EmptyBody == <<>>

\* ------------------------------------------------------- store operations
\* put_object(Key, Body): creates or replaces the one object at Key.
PutObject(s, k, body, t) ==
    [x \in (DOMAIN s) \cup {k} |-> IF x = k THEN [lm |-> t, body |-> body] ELSE s[x]]

\* delete_object(Key): removes the one object at Key; absent keys are no error.
DeletePrefix(s, k) ==
    [x \in {y \in DOMAIN s : ~(y.area = k.area /\ y.folder = k.folder)} |-> s[x]]
DeleteObject(s, k) == [x \in (DOMAIN s) \ {k} |-> s[x]]

\* list_objects_v2(Prefix = folder key): the keys that start with the prefix.
Contents(s, f) == {k \in DOMAIN s : k.area = "archive" /\ k.folder = f}

\* list_objects_v2(Prefix = archive prefix, Delimiter = '/'): CommonPrefixes,
\* one per distinct <folder>/ among the keys under the prefix.
CommonPrefixes(s) == {k.folder : k \in {x \in DOMAIN s : x.area = "archive"}}

RECURSIVE SortedSeq(_)
\* the store lists prefixes in key order, which for timestamps is time order
SortedSeq(S) ==
    IF S = {} THEN <<>>
    ELSE LET m == CHOOSE x \in S : \A y \in S : x <= y
         IN <<m>> \o SortedSeq(S \ {m})

Range(q) == {q[i] : i \in DOMAIN q}

\* min(folder_objects['Contents'], key = LastModified)['LastModified']
OldestLastModified(s, f) ==
    LET lms == {s[k].lm : k \in Contents(s, f)}
    IN CHOOSE t \in lms : \A u \in lms : t <= u

\* ------------------------------------------------ monitor: pure helpers
\* line 274: while folder_count > limit
OverLimitAtOrAbove(count, lim) == count >= lim
OverLimitPlusOne(count, lim) == count > lim + 1
OverLimit(count, lim) == count > lim

\* lines 277-279: the safety valve
LoopStuckLate(i) == i > max_iterations + 1
LoopStuck(i) == i > max_iterations

\* line 290: 'Contents' in folder_objects
HasContents(s, f) == Contents(s, f) # {}

\* what the listings of line 287 show of store s when the listing of the
\* folders in lost comes back without Contents (lost = {}: a consistent store)
Listed(s, lost) == [k \in {x \in DOMAIN s : ~(x.area = "archive" /\ x.folder \in lost)} |-> s[k]]

\* lines 285-294: some listed sub-folder has no contents (the raise of line 294)
NeverCorrupt(s, subs) == FALSE
CorruptFolder(s, subs) == \E i \in DOMAIN subs : ~HasContents(s, subs[i])

RECURSIVE FolderDates(_, _)
\* lines 282-292: (folder_key, LastModified of its oldest object), in listing order
FolderDates(s, subs) ==
    IF subs = <<>> THEN <<>>
    ELSE (IF HasContents(s, Head(subs))
          THEN << <<Head(subs), OldestLastModified(s, Head(subs))>> >>
          ELSE <<>>) \o FolderDates(s, Tail(subs))

RECURSIVE InsertByDate(_, _)
InsertByDate(e, q) ==
    IF q = <<>> THEN <<e>>
    ELSE IF e[2] < Head(q)[2] THEN <<e>> \o q
    ELSE <<Head(q)>> \o InsertByDate(e, Tail(q))

RECURSIVE SortByDate(_)
\* line 297: folder_dates.sort(key = date), a stable sort
SortByDate(q) ==
    IF q = <<>> THEN <<>>
    ELSE InsertByDate(q[Len(q)], SortByDate(SubSeq(q, 1, Len(q) - 1)))

\* line 298: folder_dates[0][0]
OldestFolderKey(s, subs) == SortByDate(FolderDates(s, subs))[1][1]

\* ------------------------------------------------------ ends of a call
Returned == pc' = "idle" /\ result' = "returned" /\ err' = "none"
Raised(e) == pc' = "idle" /\ result' = "raised" /\ err' = e

\* the monitor returns: to its caller add_archive (line 381), or to the user
MonitorDone(c) ==
    IF c = "add"
    THEN pc' = "add_folder" /\ result' = "running" /\ err' = "none"
    ELSE Returned

logVars == <<deletes, deleted, puts>>

\* lines 258-270: the first listing of the archive prefix
MonitorStart(c) ==
    LET cp == CommonPrefixes(store)
    IN /\ count0' = Cardinality(cp)
       /\ subfolders' = SortedSeq(cp)
       /\ folder_count' = Cardinality(cp)
       /\ iteration_counter' = 0
       /\ oldest_folder_key' = 0
       /\ scan_empty' = {}
       /\ IF cp # {}
          THEN pc' = "rot_iter" /\ result' = "running" /\ err' = "none"
          ELSE MonitorDone(c)

Begin(c) ==
    /\ pc = "idle"
    /\ calls < MaxCalls
    /\ calls' = calls + 1
    /\ call' = c
    /\ deletes' = 0
    /\ deleted' = {}
    /\ store0' = store

\* ------------------------------------------------------------- actions
\* monitor_and_maintain_archive_limit(s3, bucket, ..., limit), called directly
CallMonitor ==
    /\ Begin("rotate")
    /\ MonitorStart("rotate")
    /\ puts' = <<>>
    /\ date_folder' = 0
    /\ package' = RdsPackage
    /\ remaining' = <<>>
    /\ file_name' = "none"
    /\ data' = "none"
    /\ UNCHANGED <<store, now, limit>>
    /\ UNCHANGED rdsVars

\* add_archive(s3, bucket, ..., limit, archive_package): entry, lines 365-375
CallAddArchive ==
    /\ Begin("add")
    /\ MonitorStart("add")
    /\ puts' = <<>>
    /\ date_folder' = 0
    /\ package' = RdsPackage
    /\ remaining' = <<>>
    /\ file_name' = "none"
    /\ data' = "none"
    /\ UNCHANGED <<store, now, limit>>
    /\ UNCHANGED rdsVars

\* lines 274-310: one turn of the while loop: loop test, safety valve, scan
\* of the sub-folders, delete of the oldest folder's key, second listing.
\* lost: the folders whose listing (line 287) shows no Contents though the
\* store holds some; stale: the second listing (line 308) repeats the first.
MonitorStep(lost, stale) ==
    /\ pc = "rot_iter"
    /\ IF ~OverLimit(folder_count, limit)
       THEN /\ MonitorDone(call)
            /\ UNCHANGED <<store, deletes, deleted, subfolders, folder_count,
                           iteration_counter, oldest_folder_key, scan_empty>>
       ELSE /\ iteration_counter' = iteration_counter + 1
            /\ IF LoopStuck(iteration_counter + 1)
               THEN /\ Raised("stuck")
                    /\ UNCHANGED <<store, deletes, deleted, subfolders,
                                   folder_count, oldest_folder_key, scan_empty>>
               ELSE LET seen == Listed(store, lost)
                    IN /\ scan_empty' = {f \in Range(subfolders) : ~HasContents(seen, f)}
                       /\ IF CorruptFolder(seen, subfolders)
                          THEN /\ Raised("corrupt")
                               /\ UNCHANGED <<store, deletes, deleted, subfolders,
                                              folder_count, oldest_folder_key>>
                          ELSE /\ oldest_folder_key' = OldestFolderKey(seen, subfolders)
                               /\ \E ok \in BOOLEAN :
                                    IF ~ok
                                    THEN /\ Raised("delete_failed")
                                         /\ UNCHANGED <<store, deletes, deleted,
                                                        subfolders, folder_count>>
                                    ELSE LET s2 == DeleteObject(store, FolderKey(oldest_folder_key'))
                                             cp == IF stale THEN Range(subfolders)
                                                   ELSE CommonPrefixes(s2)
                                         IN /\ store' = s2
                                            /\ deletes' = deletes + 1
                                            /\ deleted' = deleted \cup {oldest_folder_key'}
                                            /\ IF cp = {}
                                               THEN /\ Raised("no_prefixes")
                                                    /\ UNCHANGED <<subfolders, folder_count>>
                                               ELSE /\ subfolders' = SortedSeq(cp)
                                                    /\ folder_count' = Cardinality(cp)
                                                    /\ UNCHANGED <<pc, result, err>>
    /\ UNCHANGED <<now, limit, call, puts, store0, calls, count0, addVars,
                   activeVars, rdsVars>>

\* the loop against a store whose listings reflect every put and delete
MonitorIterate == MonitorStep({}, FALSE)

\* the loop against a store that shows a listing anomaly in this turn
MonitorIterateAnomaly ==
    /\ OverLimit(folder_count, limit)
    /\ ~LoopStuck(iteration_counter + 1)
    /\ \/ \E f \in Range(subfolders) : MonitorStep({f}, FALSE)
       \/ MonitorStep({}, TRUE)

\* lines 381-389: name the new folder after the clock and put its key.  The
\* archive_package argument is first read after this put (line 393); its
\* value is drawn here.
AddFolder ==
    /\ pc = "add_folder"
    /\ \E t \in now..MaxTime, p \in Packages, ok \in BOOLEAN :
         /\ now' = t
         /\ date_folder' = t
         /\ package' = p
         /\ IF ok
            THEN /\ store' = PutObject(store, FolderKey(t), EmptyBody, t)
                 /\ puts' = Append(puts, FolderKey(t))
                 /\ remaining' = p.items
                 /\ pc' = "add_pkg"
                 /\ UNCHANGED <<result, err>>
            ELSE /\ Raised("folder_put_failed")
                 /\ UNCHANGED <<store, puts, remaining>>
    /\ UNCHANGED <<limit, call, deletes, deleted, store0, calls, monitorVars,
                   activeVars, rdsVars>>

\* the key add_archive_package writes for a section (lines 178-197), or none
SectionKeySwapped(section, f, t) ==
    IF section = "Data" THEN {DuplicatesKey(f)}
    ELSE IF section = "Duplicates" THEN {DataKey(f, t)}
    ELSE {}
SectionKey(section, f, t) ==
    IF section = "Duplicates" THEN {DuplicatesKey(f)}
    ELSE IF section = "Data" THEN {DataKey(f, t)}
    ELSE {}

\* the readings datetime.now() can give at the section: line 194 reads the
\* clock again for "Data"; the other sections read no clock
SectionTimes(section) == IF section = "Data" THEN now..MaxTime ELSE {now}

\* lines 168-207 (called at 391-401): one turn of the loop over the package.
\* A store that refuses a put is modelled at the folder key (AddFolder) and
\* at the active file; the puts of the sections succeed, so a snapshot is
\* left partial only by a package that is no dict.
AddPackageStep ==
    /\ pc = "add_pkg"
    /\ IF ~package.isdict
       THEN Raised("package_failed") /\ UNCHANGED <<store, now, puts, remaining>>
       ELSE IF remaining = <<>>
       THEN Returned /\ UNCHANGED <<store, now, puts, remaining>>
       ELSE LET item == Head(remaining)
            IN \E t \in SectionTimes(item.section) :
                 LET ks == SectionKey(item.section, date_folder, t)
                 IN /\ now' = t
                    /\ remaining' = Tail(remaining)
                    /\ UNCHANGED <<pc, result, err>>
                    /\ IF ks = {}
                       THEN UNCHANGED <<store, puts>>
                       ELSE \E k \in ks :
                              /\ store' = PutObject(store, k, ToCsv(item.content), t)
                              /\ puts' = Append(puts, k)
    /\ UNCHANGED <<limit, call, deletes, deleted, store0, calls, monitorVars,
                   date_folder, package, activeVars, rdsVars>>

\* lines 99-109: the puts update_active_data issues
NoPutOnFirstUpload(file_exists, k) == IF file_exists THEN <<k>> ELSE <<>>
ActivePuts(file_exists, k) == IF file_exists THEN <<k>> ELSE <<k>>

RECURSIVE PutAll(_, _, _, _)
PutAll(s, ks, body, t) ==
    IF ks = <<>> THEN s
    ELSE PutAll(PutObject(s, Head(ks), body, t), Tail(ks), body, t)

\* update_active_data(s3, bucket, ..., file_name, data), lines 87-112
UpdateActiveData ==
    /\ Begin("active")
    /\ \E fn \in FileNames, d \in Frames, ok \in BOOLEAN, t \in now..MaxTime :
         LET folder_prefix == ActiveKey(fn)
             file_exists == folder_prefix \in DOMAIN store
             ks == ActivePuts(file_exists, folder_prefix)
         IN /\ now' = t
            /\ file_name' = fn
            /\ data' = d
            /\ IF ok
               THEN /\ store' = PutAll(store, ks, ToCsv(d), t)
                    /\ puts' = ks
                    /\ Returned
               ELSE /\ Raised("active_failed")
                    /\ puts' = <<>>
                    /\ UNCHANGED store
    /\ subfolders' = <<>>
    /\ folder_count' = 0
    /\ iteration_counter' = 0
    /\ oldest_folder_key' = 0
    /\ scan_empty' = {}
    /\ count0' = 0
    /\ date_folder' = 0
    /\ package' = RdsPackage
    /\ remaining' = <<>>
    /\ UNCHANGED <<limit, rdsVars>>

\* ============================================ the schema/query compiler
\* None, and an argument that is given
None == [given |-> FALSE, val |-> <<>>]
Some(v) == [given |-> TRUE, val |-> v]

\* one entry tn: jn of a dict of a 'fields' list; a dict is the sequence of
\* its entries in insertion order
Entry(tn, jn) == [tn |-> tn, jn |-> jn]

\* join items (has_fields = FALSE: the item has no 'fields' key; has_keys =
\* FALSE: it lacks 'single_or_repeat', 'question_id' or 'data_source')
hotel_name ==
    [name |-> "hotel_name", single_or_repeat |-> "SINGLE",
     data_source |-> "application_data_textboxanswer", question_id |-> 1015,
     has_fields |-> TRUE, has_keys |-> TRUE,
     fields |-> << <<Entry("value", "hotel_name")>> >>]
hotel_address ==
    [name |-> "hotel_address", single_or_repeat |-> "REPEATING",
     data_source |-> "application_data_addressanswer", question_id |-> 1016,
     has_fields |-> TRUE, has_keys |-> TRUE,
     fields |-> << <<Entry("line1", "hotel_address_line_1"),
                     Entry("city", "hotel_city")>> >>]
hotel_status ==
    [name |-> "hotel_status", single_or_repeat |-> "REPEATING",
     data_source |-> "application_data_singleselectanswer", question_id |-> 1013,
     has_fields |-> TRUE, has_keys |-> TRUE,
     fields |-> << <<Entry("value", "hotel_status")>>,
                   <<Entry("label", "hotel_status_label")>> >>]
no_fields ==
    [name |-> "license_in", single_or_repeat |-> "SINGLE",
     data_source |-> "application_data_dateanswer", question_id |-> 1021,
     has_fields |-> FALSE, has_keys |-> TRUE, fields |-> <<>>]
no_keys ==
    [name |-> "license_out", single_or_repeat |-> "SINGLE",
     data_source |-> "application_data_dateanswer", question_id |-> 1022,
     has_fields |-> TRUE, has_keys |-> FALSE,
     fields |-> << <<Entry("value", "license_out")>> >>]

Items == {hotel_name, hotel_address, hotel_status, no_fields, no_keys}

\* source descriptors (has_project, has_order = FALSE: the dict has no
\* 'project', no 'order' key)
app ==
    [table |-> "applications_application", name |-> "app",
     fields |-> << <<Entry("application_number", "application_number"),
                     Entry("created_at", "created_at")>> >>,
     has_project |-> TRUE, project |-> 34, has_order |-> TRUE, order |-> "id"]
Sources ==
    { app,
      [app EXCEPT !.name = "a", !.fields = << <<Entry("id", "app_id")>>,
                                             <<Entry("status", "app_status")>> >>],
      [app EXCEPT !.has_project = FALSE],
      [app EXCEPT !.has_order = FALSE] }

JoinLists == UNION {[1..n -> Items] : n \in 0..MaxJoins}

\* the query packages handed to RDS: well formed, or lacking a component
QueryPackages ==
    {[has_source |-> TRUE, source |-> s, has_join_list |-> TRUE, join_list |-> jl] :
        s \in Sources, jl \in JoinLists}
    \cup {[has_source |-> FALSE, source |-> app, has_join_list |-> TRUE, join_list |-> <<>>],
          [has_source |-> TRUE, source |-> app, has_join_list |-> FALSE, join_list |-> <<>>]}

Schemas == {<<"hotel_name", "created_at">>}
Excludes == {<<"hotel_name">>}
Queries == {"SELECT 1;"}

\* the outcome of a call: a value returned, or the exception raised
Return(v) == [raised |-> "none", val |-> v]
Raise(e) == [raised |-> e, val |-> <<>>]

\* ---- unpack_query, lines 134-155
unpack_query(qp) ==
    IF qp.given
    THEN IF ~qp.val.has_source THEN Raise("no_source")
         ELSE IF ~qp.val.has_join_list THEN Raise("no_join_list")
         ELSE Return(<<Some(qp.val.source), Some(qp.val.join_list)>>)
    ELSE Return(<<None, None>>)

\* ---- build_schema, lines 202-233
\* lines 210-211 and 217-218: for tn, jn in field.items(): append(jn)
FieldKeys(field) == [i \in DOMAIN field |-> field[i].tn]
FieldNames(field) == [i \in DOMAIN field |-> field[i].jn]

RECURSIVE FieldsNames(_)
\* lines 209 and 216: for field in <descriptor>['fields']
FieldsNames(fields) ==
    IF fields = <<>> THEN <<>>
    ELSE FieldNames(Head(fields)) \o FieldsNames(Tail(fields))

RECURSIVE JoinNames(_)
\* line 215: for item in join_list
JoinNames(items) ==
    IF items = <<>> THEN <<>>
    ELSE FieldsNames(Head(items).fields) \o JoinNames(Tail(items))

RECURSIVE Filter(_, _)
\* line 230: [field for field in schema_lst if field not in exclude]
Filter(q, ex) ==
    IF q = <<>> THEN <<>>
    ELSE (IF Head(q) \in Range(ex) THEN <<>> ELSE <<Head(q)>>) \o Filter(Tail(q), ex)

\* item['fields'] raises KeyError for some item of the list
MissingFields(items) == \E i \in DOMAIN items : ~items[i].has_fields

build_schema(src, jl, sch, exc) ==
    IF ~sch.given /\ src.given /\ jl.given /\ MissingFields(jl.val)
    THEN Raise("schema")
    ELSE LET schema_lst ==
                 IF ~sch.given /\ src.given /\ jl.given
                 THEN FieldsNames(src.val.fields) \o JoinNames(jl.val)
                 ELSE IF sch.given /\ ~src.given /\ ~jl.given
                 THEN sch.val
                 ELSE <<>>
         IN Return(IF exc.given THEN Filter(schema_lst, exc.val) ELSE schema_lst)

\* ---- build_query, lines 276-379
\* table aliases of the query text
Alias(name) == [base |-> name, n |-> 0]
initial_join_answers == [base |-> "initial_join_answers", n |-> 0]
join_answers(join_count) == [base |-> "join_answers_", n |-> join_count]
Ref(alias, column) == [alias |-> alias, column |-> column]

\* the lines of the query text
Select == [k |-> "SELECT"]
Col(alias, tn, jn, comma) == [k |-> "COL", alias |-> alias, tn |-> tn, jn |-> jn, comma |-> comma]
From(table, name) == [k |-> "FROM", table |-> table, alias |-> Alias(name)]
JoinAnswer(data_conn, left, right, question_id) ==
    [k |-> "JOIN_ANSWER", data_conn |-> data_conn, left |-> left, right |-> right,
     question_id |-> question_id]
JoinData(data_source, name, data_conn) ==
    [k |-> "JOIN_DATA", table |-> data_source, alias |-> Alias(name),
     left |-> Ref(data_conn, "id"), right |-> Ref(Alias(name), "answer_ptr_id")]
Where(name, project) == [k |-> "WHERE", left |-> Ref(Alias(name), "project_id"), project |-> project]
OrderBy(name, order) == [k |-> "ORDER_BY", by |-> Ref(Alias(name), order)]

\* the values of self.query: None, a text passed in, a text compiled
NoQuery == [kind |-> "none", text |-> "", lines |-> <<>>]
Text(t) == [kind |-> "text", text |-> t, lines |-> <<>>]
Compiled(lines) == [kind |-> "compiled", text |-> "", lines |-> lines]

\* lines 286-288: the select list of the source; every entry ends in a comma
SourceCols(name, field) ==
    [i \in DOMAIN field |-> Col(Alias(name), field[i].tn, field[i].jn, TRUE)]

\* lines 300-304: the entries of one dict of a join item; last: the test of
\* line 301, index == len(join_list) - 1 and field == item['fields'][-1]
ItemCols(name, field, last) ==
    [i \in DOMAIN field |-> Col(Alias(name), field[i].tn, field[i].jn, ~last)]

RECURSIVE SourceFieldsCols(_, _)
SourceFieldsCols(name, fields) ==
    IF fields = <<>> THEN <<>>
    ELSE SourceCols(name, Head(fields)) \o SourceFieldsCols(name, Tail(fields))

RECURSIVE ItemFieldsCols(_, _, _)
\* line 299: for field in item['fields'] (rest: the dicts still to visit)
ItemFieldsCols(item, rest, last_item) ==
    IF rest = <<>> THEN <<>>
    ELSE ItemCols(item.name, Head(rest),
                  last_item /\ Head(rest) = item.fields[Len(item.fields)])
         \o ItemFieldsCols(item, Tail(rest), last_item)

RECURSIVE JoinCols(_, _, _)
\* line 297: for index, item in enumerate(join_list)
JoinCols(items, index, len) ==
    IF items = <<>> THEN <<>>
    ELSE ItemFieldsCols(Head(items), Head(items).fields, index = len - 1)
         \o JoinCols(Tail(items), index + 1, len)

\* lines 326-330: the alias of the item's application_data_answer bridge
DataConn(index, join_count) ==
    IF index = 0 THEN initial_join_answers ELSE join_answers(join_count)

\* line 336: the left side of the predicate of a SINGLE item
SingleAnchor == Ref(Alias("app"), "id")

\* line 342: the bridge the predicate of a REPEATING item at index refers to
PreviousDataConn(index) ==
    IF index <= 1 THEN initial_join_answers ELSE join_answers(index - 1)
RepeatingAnchor(index) == initial_join_answers

\* lines 334-343: the two joins of one item
ItemJoins(item, index, data_conn) ==
    IF item.single_or_repeat = "SINGLE"
    THEN <<JoinAnswer(data_conn, SingleAnchor, Ref(data_conn, "application_id"),
                      item.question_id),
           JoinData(item.data_source, item.name, data_conn)>>
    ELSE IF item.single_or_repeat = "REPEATING"
    THEN <<JoinAnswer(data_conn,
                      Ref(RepeatingAnchor(index), "repeating_answer_section_id"),
                      Ref(data_conn, "repeating_answer_section_id"),
                      item.question_id),
           JoinData(item.data_source, item.name, data_conn)>>
    ELSE <<>>

RECURSIVE AddJoins(_, _, _)
\* lines 323-343: for index, item in enumerate(join_list), with join_count
AddJoins(items, index, join_count) ==
    IF items = <<>> THEN <<>>
    ELSE ItemJoins(Head(items), index, DataConn(index, join_count))
         \o AddJoins(Tail(items), index + 1,
                     IF index = 0 THEN join_count ELSE join_count + 1)

\* lines 334-337: a key of the item read for the join clauses is absent
MissingKeys(items) == \E i \in DOMAIN items : ~items[i].has_keys

\* what the except clauses of the stages raise.  Lines 306-307 and 346-347
\* bind the exception as e and name the stage.  Lines 355-356 and 364-365
\* are bare excepts whose message reads e, a local that no except clause
\* has bound at that point: evaluating the message raises UnboundLocalError,
\* and that is what leaves the function.
JoinFieldsExcept == "join_fields"
JoinClauseExcept == "join_clause"
UnboundE(stage) == "unbound_e"
ProjectExcept == UnboundE("project_filter")
OrderExcept == UnboundE("order")

\* The names drawn here are plain identifiers, which the decode of line 369
\* leaves character for character as they are.
build_query(src, jl, q) ==
    IF ~q.given /\ src.given /\ jl.given
    THEN IF MissingFields(jl.val) THEN Raise(JoinFieldsExcept)
         ELSE IF MissingKeys(jl.val) THEN Raise(JoinClauseExcept)
         ELSE IF ~src.val.has_project THEN Raise(ProjectExcept)
         ELSE IF ~src.val.has_order THEN Raise(OrderExcept)
         ELSE Return(Compiled(
                  <<Select>>
                  \o SourceFieldsCols(src.val.name, src.val.fields)
                  \o JoinCols(jl.val, 0, Len(jl.val))
                  \o <<From(src.val.table, src.val.name)>>
                  \o AddJoins(jl.val, 0, 1)
                  \o <<Where(src.val.name, src.val.project),
                       OrderBy(src.val.name, src.val.order)>>))
    ELSE Return(IF q.given THEN Text(q.val) ELSE NoQuery)

\* ---- RDS.__init__, lines 96-108
\* line 104
InitUnpack ==
    /\ qpc = "unpack"
    /\ LET r == unpack_query(query_package)
       IN IF r.raised = "none"
          THEN /\ source' = r.val[1]
               /\ join_list' = r.val[2]
               /\ qpc' = "schema"
               /\ UNCHANGED qerr
          ELSE /\ qerr' = r.raised
               /\ qpc' = "raised"
               /\ UNCHANGED <<source, join_list>>
    /\ UNCHANGED <<query_package, schema, exclude, query, self_schema, self_query>>
    /\ UNCHANGED <<archiveVars, dataVars>>

\* line 107
InitSchema ==
    /\ qpc = "schema"
    /\ LET r == build_schema(source, join_list, schema, exclude)
       IN IF r.raised = "none"
          THEN /\ self_schema' = r.val
               /\ qpc' = "query"
               /\ UNCHANGED qerr
          ELSE /\ qerr' = r.raised
               /\ qpc' = "raised"
               /\ UNCHANGED self_schema
    /\ UNCHANGED <<query_package, schema, exclude, query, source, join_list, self_query>>
    /\ UNCHANGED <<archiveVars, dataVars>>

\* line 108
InitQuery ==
    /\ qpc = "query"
    /\ LET r == build_query(source, join_list, query)
       IN IF r.raised = "none"
          THEN /\ self_query' = r.val
               /\ qpc' = "built"
               /\ UNCHANGED qerr
          ELSE /\ qerr' = r.raised
               /\ qpc' = "raised"
               /\ UNCHANGED self_query
    /\ UNCHANGED <<query_package, schema, exclude, query, source, join_list, self_schema>>
    /\ UNCHANGED <<archiveVars, dataVars>>

\* ======================================================== the data side
\* A table (DataFrame): its column names and its rows in order.  A row is
\* [ix, val]: the index label DataFrame() gave it (its position in the
\* fetched rows) and the tuple of its values; two rows are identical across
\* every column iff their val is equal.
RowValues == {"r1", "r2"}
\* the fetched rows, the values named in the order they first appear: the
\* first row is r1
RowSeqs ==
    {r \in UNION {[1..n -> RowValues] : n \in 0..MaxRows} : r = <<>> \/ r[1] = "r1"}
ColumnLists ==
    { <<"application_number", "created_at", "hotel_name">>,
      <<"application_number", "created_at">> }

\* what the cursor does in one call: execute (or describing, fetching)
\* throws, or it gives columns and rows whose tuples have width values.
\* Tuples of another width than the columns make line 80 raise whatever
\* they hold: one fetched row stands for them.
Cursors ==
    {[fails |-> TRUE, columns |-> <<>>, width |-> 0, rows |-> <<>>]}
    \cup {[fails |-> FALSE, columns |-> c, width |-> Len(c), rows |-> r] :
             c \in ColumnLists, r \in RowSeqs}
    \cup {x \in {[fails |-> FALSE, columns |-> c, width |-> w, rows |-> <<"r1">>] :
                     c \in ColumnLists, w \in {2, 3}} : x.width # Len(x.columns)}

\* pd.DataFrame()
EmptyFrame == [columns |-> <<>>, rows |-> <<>>]

\* pd.DataFrame(rows, columns = columns), line 80
DataFrame(rows, columns) ==
    [columns |-> columns, rows |-> [i \in DOMAIN rows |-> [ix |-> i - 1, val |-> rows[i]]]]

\* line 80 raises: the tuples do not have one value per column
ShapeMismatch(c) == c.rows # <<>> /\ c.width # Len(c.columns)

\* df.empty
Empty(t) == t.rows = <<>> \/ t.columns = <<>>

\* ---- rds_sql_pull, lines 67-93
\* lines 90-93: the except of the outer try, which encloses the inner try:
\* whatever was raised inside, the raise of line 87 included, is raised again
\* as the failure to pull rows
OuterExcept(e) == "execution"

\* lines 77-87: the inner try
InnerTry(c) ==
    IF ShapeMismatch(c) THEN Raise("materialization")
    ELSE Return(DataFrame(c.rows, c.columns))

rds_sql_pull(c) ==
    IF c.fails THEN Raise(OuterExcept("driver"))
    ELSE IF InnerTry(c).raised # "none" THEN Raise(OuterExcept(InnerTry(c).raised))
    ELSE InnerTry(c)

\* ---- RDS.check_schema, lines 158-175
RECURSIVE MissingFields_(_, _)
\* lines 165-170: the fields of the schema not among the columns, in schema
\* order, one entry per schema entry
MissingFields_(sch, columns) ==
    IF sch = <<>> THEN <<>>
    ELSE (IF Head(sch) \in Range(columns) THEN <<>> ELSE <<Head(sch)>>)
         \o MissingFields_(Tail(sch), columns)

\* line 170: self.fields_missing.append(field)
AppendMissing(old, found) == old \o found

\* returns [check, fields_missing], or raises on an empty table
check_schema(sch, missing, t) ==
    IF Empty(t) THEN Raise("check_empty")
    ELSE Return([check |-> MissingFields_(sch, t.columns) = <<>>,
                 fields_missing |-> AppendMissing(missing, MissingFields_(sch, t.columns))])

\* ---- deduplication, lines 224-228
\* data.duplicated(): TRUE at the rows that repeat an earlier row
Duplicated(t) ==
    [i \in DOMAIN t.rows |-> \E j \in 1..(i - 1) : t.rows[j].val = t.rows[i].val]

RECURSIVE SelectRows(_, _, _)
\* data[mask]: the rows at which mask is TRUE, in order, from position i on
SelectRows(rows, mask, i) ==
    IF i > Len(rows) THEN <<>>
    ELSE (IF mask[i] THEN <<rows[i]>> ELSE <<>>) \o SelectRows(rows, mask, i + 1)

\* data.drop_duplicates(): the rows that repeat no earlier row
KeepAll(t) == t
DropDuplicates(t) ==
    [t EXCEPT !.rows = SelectRows(t.rows, [i \in DOMAIN t.rows |-> ~Duplicated(t)[i]], 1)]

\* line 228: data[data.duplicated()]
DuplicatedRows(t) == [t EXCEPT !.rows = SelectRows(t.rows, Duplicated(t), 1)]

\* lines 225-231: data is rebound to the deduplicated table at line 225, and
\* line 228 reads the rebound data
Dedup(t) ==
    [df |-> DropDuplicates(t), duplicates |-> DuplicatedRows(DropDuplicates(t))]

\* self.archive: the list [] of line 112, the dict of lines 234-237
NoArchive == [isdict |-> FALSE, items |-> <<>>]
ArchivePackage(dups, clean) ==
    [isdict |-> TRUE,
     items |-> <<[section |-> "Duplicates", content |-> dups],
                 [section |-> "Data", content |-> clean]>>]

\* ---- RDS.query_to_df, lines 214-252: what the call does to the object
\* [raised, cursor_used, checked, check, fields_missing, stored, df, duplicates]
query_to_df(q, sch, missing, c) ==
    LET none == [raised |-> "none", pulled |-> FALSE, checked |-> FALSE,
                 check |-> FALSE, fields_missing |-> missing, stored |-> FALSE,
                 df |-> EmptyFrame, duplicates |-> EmptyFrame]
    IN IF q.kind = "none"
       THEN [none EXCEPT !.raised = "empty_from_query"]
       ELSE IF rds_sql_pull(c).raised # "none"
       THEN [none EXCEPT !.raised = rds_sql_pull(c).raised, !.pulled = TRUE]
       ELSE LET t == rds_sql_pull(c).val
            IN IF Empty(t)
               THEN [none EXCEPT !.raised = "empty_from_query", !.pulled = TRUE]
               ELSE LET r == check_schema(sch, missing, t).val
                    IN IF ~r.check
                       THEN [none EXCEPT !.raised = "schema_mismatch", !.pulled = TRUE,
                                         !.checked = TRUE,
                                         !.fields_missing = r.fields_missing]
                       ELSE [none EXCEPT !.pulled = TRUE, !.checked = TRUE,
                                         !.check = TRUE,
                                         !.fields_missing = r.fields_missing,
                                         !.stored = TRUE,
                                         !.df = Dedup(t).df,
                                         !.duplicates = Dedup(t).duplicates]

\* the tables handed to check_schema when it is called directly: it reads
\* df.empty and df.columns, so tables of no row and of one row stand for all
Tables ==
    {EmptyFrame}
    \cup {DataFrame(r, c) : r \in {r \in RowSeqs : Len(r) <= 1}, c \in ColumnLists}

\* no cursor has been used yet
NoCursor == [fails |-> FALSE, columns |-> <<>>, width |-> 0, rows |-> <<>>]

\* what a call of query_to_df with outcome o leaves in check and checked_df
CheckOf(o) == IF ~o.checked THEN "none" ELSE IF o.check THEN "true" ELSE "false"
TableOf(o, c) == IF o.checked THEN rds_sql_pull(c).val ELSE EmptyFrame

\* the cursors handed to the constructor: those returning at most one row
FirstCursors == {c \in Cursors : Len(c.rows) <= 1}

\* ---- RDS.__init__, lines 111-121
InitAuto ==
    /\ qpc = "built"
    /\ \E a \in BOOLEAN, c \in FirstCursors :
         /\ auto' = a
         /\ IF a
            THEN LET o == query_to_df(self_query, self_schema, <<>>, c)
                 IN /\ cursor' = c
                    /\ method' = "query_to_df"
                    /\ fields_missing' = o.fields_missing
                    /\ check' = CheckOf(o)
                    /\ checked_df' = TableOf(o, c)
                    /\ df' = o.df
                    /\ duplicates' = o.duplicates
                    /\ archive' = IF o.stored THEN ArchivePackage(o.duplicates, o.df)
                                  ELSE NoArchive
                    /\ IF o.raised = "none"
                       THEN qpc' = "constructed" /\ UNCHANGED qerr
                       ELSE qpc' = "raised" /\ qerr' = o.raised
            ELSE /\ duplicates' = EmptyFrame
                 /\ archive' = NoArchive
                 /\ fields_missing' = <<>>
                 /\ df' = EmptyFrame
                 /\ qpc' = "constructed"
                 /\ UNCHANGED <<cursor, checked_df, check, qerr, method>>
    /\ UNCHANGED <<query_package, schema, exclude, query, source, join_list,
                   self_schema, self_query, perr, pulls>>
    /\ UNCHANGED archiveVars

\* ---- rds.query_to_df(), called on a constructed object
QueryToDf ==
    /\ qpc = "constructed"
    /\ pulls < MaxPulls
    /\ pulls' = pulls + 1
    /\ \E c \in Cursors :
         LET o == query_to_df(self_query, self_schema, fields_missing, c)
         IN /\ cursor' = c
            /\ method' = "query_to_df"
            /\ perr' = o.raised
            /\ fields_missing' = o.fields_missing
            /\ check' = CheckOf(o)
            /\ checked_df' = TableOf(o, c)
            /\ IF o.stored
               THEN /\ df' = o.df
                    /\ duplicates' = o.duplicates
                    /\ archive' = ArchivePackage(o.duplicates, o.df)
               ELSE UNCHANGED <<df, duplicates, archive>>
    /\ UNCHANGED <<compilerVars, auto, archiveVars>>

\* ---- rds.check_schema(df), called on a constructed object
CheckSchema ==
    /\ qpc = "constructed"
    /\ pulls < MaxPulls
    /\ pulls' = pulls + 1
    /\ \E t \in Tables :
         LET r == check_schema(self_schema, fields_missing, t)
         IN /\ checked_df' = t
            /\ method' = "check_schema"
            /\ perr' = r.raised
            /\ IF r.raised = "none"
               THEN /\ check' = (IF r.val.check THEN "true" ELSE "false")
                    /\ fields_missing' = r.val.fields_missing
               ELSE /\ check' = "none"
                    /\ UNCHANGED fields_missing
    /\ UNCHANGED <<compilerVars, auto, cursor, df, duplicates, archive, archiveVars>>

\* ================================================================ systems
\* the archive: the bucket is empty, no call has begun
ArchiveInit ==
    /\ store = <<>>
    /\ now = 1
    /\ limit \in 1..MaxLimit
    /\ pc = "idle"
    /\ call = "none"
    /\ result = "returned"
    /\ err = "none"
    /\ deletes = 0
    /\ deleted = {}
    /\ puts = <<>>
    /\ store0 = <<>>
    /\ calls = 0
    /\ scan_empty = {}
    /\ subfolders = <<>>
    /\ folder_count = 0
    /\ iteration_counter = 0
    /\ oldest_folder_key = 0
    /\ count0 = 0
    /\ date_folder = 0
    /\ package = RdsPackage
    /\ remaining = <<>>
    /\ file_name = "none"
    /\ data = "none"

\* no RDS object is under construction
CompilerOff ==
    /\ query_package = None
    /\ schema = None
    /\ exclude = None
    /\ query = None
    /\ source = None
    /\ join_list = None
    /\ self_schema = <<>>
    /\ self_query = NoQuery
    /\ qerr = "none"
    /\ qpc = "off"

\* the attributes and the calls of the data side before line 111
DataOff ==
    /\ auto = FALSE
    /\ cursor = NoCursor
    /\ checked_df = EmptyFrame
    /\ df = EmptyFrame
    /\ duplicates = EmptyFrame
    /\ archive = NoArchive
    /\ fields_missing = <<>>
    /\ check = "none"
    /\ perr = "none"
    /\ method = "none"
    /\ pulls = 0

Init == ArchiveInit /\ CompilerOff /\ DataOff

Next ==
    \/ CallMonitor
    \/ CallAddArchive
    \/ MonitorIterate
    \/ AddFolder
    \/ AddPackageStep
    \/ UpdateActiveData

Spec == Init /\ [][Next]_vars

\* the archive functions on a bucket that already holds the active file, as
\* a returned update_active_data (lines 99-109) leaves it
Published == PutObject(<<>>, ActiveKey("report.csv"), ToCsv("d1"), 1)

ActiveInit ==
    /\ store = Published
    /\ now = 1
    /\ limit \in 1..MaxLimit
    /\ pc = "idle"
    /\ call = "none"
    /\ result = "returned"
    /\ err = "none"
    /\ deletes = 0
    /\ deleted = {}
    /\ puts = <<>>
    /\ store0 = Published
    /\ calls = 0
    /\ scan_empty = {}
    /\ subfolders = <<>>
    /\ folder_count = 0
    /\ iteration_counter = 0
    /\ oldest_folder_key = 0
    /\ count0 = 0
    /\ date_folder = 0
    /\ package = RdsPackage
    /\ remaining = <<>>
    /\ file_name = "none"
    /\ data = "none"

InitActive == ActiveInit /\ CompilerOff /\ DataOff

SpecActive == InitActive /\ [][Next]_vars

NextEnv == Next \/ MonitorIterateAnomaly

SpecEnv == Init /\ [][NextEnv]_vars

\* RDS(conn, cursor, query_package, auto, schema, exclude, query) with its
\* arguments drawn; the archive is not touched
InitRds ==
    /\ ArchiveInit
    /\ limit = 1
    /\ DataOff
    /\ query_package \in {None} \cup {Some(qp) : qp \in QueryPackages}
    /\ schema \in {None} \cup {Some(x) : x \in Schemas}
    /\ exclude \in {None} \cup {Some(x) : x \in Excludes}
    /\ query \in {None} \cup {Some(x) : x \in Queries}
    /\ source = None
    /\ join_list = None
    /\ self_schema = <<>>
    /\ self_query = NoQuery
    /\ qerr = "none"
    /\ qpc = "unpack"

NextRds ==
    \/ InitUnpack
    \/ InitSchema
    \/ InitQuery
    \/ InitAuto

SpecRds == InitRds /\ [][NextRds]_vars

\* the arguments of the RDS objects whose methods are called: a package
\* alone, a package whose join list names one output twice, a literal query
\* with its schema, and no argument at all
DfArguments ==
    { [query_package |-> Some([has_source |-> TRUE, source |-> app,
                               has_join_list |-> TRUE, join_list |-> <<hotel_name>>]),
       schema |-> None, query |-> None],
      [query_package |-> Some([has_source |-> TRUE, source |-> app,
                               has_join_list |-> TRUE,
                               join_list |-> <<hotel_name, hotel_name>>]),
       schema |-> None, query |-> None],
      [query_package |-> None,
       schema |-> Some(<<"hotel_name", "created_at">>),
       query |-> Some("SELECT 1;")],
      [query_package |-> None, schema |-> None, query |-> None] }

\* an RDS object constructed with auto = False from one of these arguments
InitDf ==
    /\ ArchiveInit
    /\ limit = 1
    /\ \E a \in DfArguments :
         /\ query_package = a.query_package
         /\ schema = a.schema
         /\ exclude = None
         /\ query = a.query
         /\ source = unpack_query(a.query_package).val[1]
         /\ join_list = unpack_query(a.query_package).val[2]
         /\ self_schema = build_schema(unpack_query(a.query_package).val[1],
                                       unpack_query(a.query_package).val[2],
                                       a.schema, None).val
         /\ self_query = build_query(unpack_query(a.query_package).val[1],
                                     unpack_query(a.query_package).val[2],
                                     a.query).val
    /\ qerr = "none"
    /\ qpc = "constructed"
    /\ DataOff

NextDf ==
    \/ QueryToDf
    \/ CheckSchema

SpecDf == InitDf /\ [][NextDf]_vars

\* ================================================================ claims
MonitorErrors == {"stuck", "corrupt", "delete_failed", "no_prefixes"}

\* the monitor has returned to its caller without raising
MonitorReturned ==
    \/ call = "rotate" /\ pc = "idle" /\ result = "returned"
    \/ call = "add" /\ pc = "add_folder"

\* the monitor has raised
MonitorRaised ==
    /\ call \in {"rotate", "add"}
    /\ pc = "idle"
    /\ result = "raised"
    /\ err \in MonitorErrors

MonitorRunning == pc = "rot_iter"

FolderCount(s) == Cardinality(CommonPrefixes(s))

\* the keys of the items of a package that write a file, in package order
RECURSIVE SectionFiles(_)
SectionFiles(items) ==
    IF items = <<>> THEN <<>>
    ELSE (IF Head(items).section = "Duplicates" THEN <<"Duplicates.csv">>
          ELSE IF Head(items).section = "Data" THEN <<"Archived-Data">>
          ELSE <<>>) \o SectionFiles(Tail(items))

IsPrefix(p, q) == Len(p) <= Len(q) /\ SubSeq(q, 1, Len(p)) = p

\* ---------------------------------------------------------------- C1
\* C1: a call of the monitor that finds limit + k sub-folders (k > 0), each
\* holding an object, on a store that carries out every delete, performs
\* exactly k deletions, each of the sub-folder whose oldest object is the
\* earliest, and leaves exactly the other limit sub-folders.
C1_DeletesExactlyKOldest ==
    ((MonitorReturned \/ MonitorRaised) /\ count0 > limit /\ err # "delete_failed")
        => /\ MonitorReturned
           /\ deletes = count0 - limit
           /\ Cardinality(deleted) = count0 - limit
           /\ CommonPrefixes(store) = CommonPrefixes(store0) \ deleted
           /\ \A f \in deleted : \A g \in CommonPrefixes(store) :
                 OldestLastModified(store0, f) <= OldestLastModified(store0, g)

\* ---------------------------------------------------------------- C2
\* C2: a call of the monitor that finds no more sub-folders than the limit
\* (none at all included) issues no delete and no put, leaves the store as
\* it was, and returns.
C2_NoOpWithinLimit ==
    ((MonitorRunning \/ MonitorReturned \/ MonitorRaised) /\ count0 <= limit)
        => /\ deletes = 0
           /\ puts = <<>>
           /\ store = store0
           /\ ~MonitorRaised

C2_Witness ==
    /\ call = "rotate"
    /\ MonitorReturned
    /\ count0 = limit
    /\ Cardinality({k \in DOMAIN store : k.area = "archive"}) > count0

\* ---------------------------------------------------------------- C3
\* C3: whatever the store's listings show, the loop of the monitor ends:
\* every turn that stays in the loop counts one iteration, the counter never
\* passes max_iterations + 1, at most max_iterations deletions are performed
\* in one call, and when the counter passes max_iterations the call has
\* raised the stuck error without a further deletion.
C3_Bounded ==
    /\ iteration_counter <= max_iterations + 1
    /\ deletes <= max_iterations
    /\ deletes <= iteration_counter
    /\ (MonitorRunning => deletes = iteration_counter)
    /\ (iteration_counter > max_iterations
          => MonitorRaised /\ err = "stuck" /\ deletes = max_iterations)

C3_Witness ==
    /\ MonitorRaised
    /\ err = "stuck"
    /\ deletes = max_iterations
    /\ FolderCount(store) = count0

\* ---------------------------------------------------------------- C4
\* C4: with one limit (>= 1) and a single writer, the number of snapshot
\* sub-folders under the archive prefix never exceeds limit + 1, and is at
\* most limit when add_archive is about to create the new folder.
C4_BoundedSnapshots ==
    /\ FolderCount(store) <= limit + 1
    /\ (pc = "add_folder" => FolderCount(store) <= limit)

C4_Witness ==
    /\ call = "add"
    /\ pc = "idle"
    /\ result = "returned"
    /\ deletes > 0
    /\ FolderCount(store) = limit + 1

\* ---------------------------------------------------------------- C5
\* C5: snapshots are write-once and delete-whole: no call puts an object
\* under a snapshot folder that existed when the call began, and once the
\* monitor has deleted a snapshot no object under its prefix remains.
C5_WriteOnceDeleteWhole ==
    /\ \A i \in DOMAIN puts :
          puts[i].area = "archive" => puts[i].folder \notin CommonPrefixes(store0)
    /\ (puts = <<>> => \A f \in deleted : Contents(store, f) = {})

\* the two halves of C5, each on its own
C5_WriteOnce ==
    \A i \in DOMAIN puts :
        puts[i].area = "archive" => puts[i].folder \notin CommonPrefixes(store0)

C5_DeleteWhole == puts = <<>> => \A f \in deleted : Contents(store, f) = {}

\* ---------------------------------------------------------------- C6
\* C6: when the scan of a turn of the loop finds a listed sub-folder without
\* contents, the call raises the corrupt-archive error and that turn
\* performs no deletion (every earlier turn performed one).
C6_CorruptBeforeDelete ==
    scan_empty # {}
        => /\ MonitorRaised
           /\ err = "corrupt"
           /\ deletes = iteration_counter - 1

C6_Witness ==
    /\ MonitorRaised
    /\ err = "corrupt"
    /\ scan_empty # {}
    /\ count0 > limit

\* ---------------------------------------------------------------- C7
\* C7 as stated: in add_archive every delete of the monitor precedes the
\* put of the folder key, which precedes the put of Duplicates.csv, which
\* precedes the put of the Archived-Data file; when the monitor raises,
\* add_archive raises and has put nothing.
C7_OrderAsStated ==
    call = "add"
        => /\ (MonitorRunning => puts = <<>>)
           /\ (MonitorRaised => puts = <<>>)
           /\ \A i \in DOMAIN puts : (puts[i].file = "/") <=> (i = 1)
           /\ \A i, j \in DOMAIN puts :
                 (puts[i].file = "Duplicates.csv" /\ puts[j].file = "Archived-Data")
                     => i < j

\* C7 amended: every delete of the monitor precedes the put of the folder
\* key, which precedes the puts of the section files; these follow the order
\* of the sections in the archive package (Duplicates.csv before the
\* Archived-Data file for the package query_to_df builds); when the monitor
\* raises, add_archive raises and has put nothing.
C7_OrderOfPackage ==
    call = "add"
        => /\ (MonitorRunning => puts = <<>>)
           /\ (MonitorRaised => puts = <<>>)
           /\ \A i \in DOMAIN puts : (puts[i].file = "/") <=> (i = 1)
           /\ (puts # <<>> =>
                 /\ IsPrefix([i \in 1..(Len(puts) - 1) |-> puts[i + 1].file],
                             SectionFiles(package.items))
                 /\ (pc = "idle" /\ result = "returned"
                       => Len(puts) = 1 + Len(SectionFiles(package.items)))
                 /\ \A i \in DOMAIN puts : puts[i].folder = date_folder)

C7_Witness ==
    /\ call = "add"
    /\ pc = "idle"
    /\ result = "returned"
    /\ deletes > 0
    /\ package = RdsPackage
    /\ Len(puts) = 3
    /\ puts[2].file = "Duplicates.csv"
    /\ puts[3].file = "Archived-Data"

SchemaBuilt == qpc \in {"query", "built"} \/ (qpc = "raised" /\ qerr \in {"join_fields", "unbound_e"})

\* the descriptors of a package: the source, then the join items in order
Descriptor(qp, k) == IF k = 0 THEN qp.source ELSE qp.join_list[k]

\* the declared output fields of a package: <<descriptor, dict, entry>>
Declared(qp) ==
    UNION {UNION {{<<k, d, e>> : e \in DOMAIN Descriptor(qp, k).fields[d]} :
                     d \in DOMAIN Descriptor(qp, k).fields} :
              k \in 0..Len(qp.join_list)}

\* source-then-join-list order, each descriptor's declared order inside
Before(p, q) ==
    \/ p[1] < q[1]
    \/ p[1] = q[1] /\ p[2] < q[2]
    \/ p[1] = q[1] /\ p[2] = q[2] /\ p[3] < q[3]

\* C9: for a query package with source and join list, no schema override and
\* no exclusion list, the list build_schema returns has as many entries as
\* the package declares output fields, and its n-th entry is the output name
\* of the n-th declared field in source-then-join-list order.
C9_SchemaIsDeclaredOutputs ==
    (SchemaBuilt /\ query_package.given /\ ~schema.given /\ ~exclude.given)
        => LET qp == query_package.val
               P == Declared(qp)
           IN /\ Len(self_schema) = Cardinality(P)
              /\ \A p \in P :
                    self_schema[Cardinality({q \in P : Before(q, p)}) + 1]
                        = Descriptor(qp, p[1]).fields[p[2]][p[3]].jn

C9_Witness ==
    /\ qpc = "built"
    /\ query_package.given /\ ~schema.given /\ ~exclude.given
    /\ Len(join_list.val) = 3
    /\ join_list.val[1] = hotel_status
    /\ join_list.val[2] = hotel_address
    /\ source.val.name = "a"
    /\ Len(self_schema) = 7

\* ---------------------------------------------------------------- C10
\* the join lines of a compiled query, in the order of the text
JoinLines(lines) == SelectSeq(lines, LAMBDA l : l.k \in {"JOIN_ANSWER", "JOIN_DATA"})

\* the bridge alias of the item at position i (1-based) of the join list
Bridge(i) == IF i = 1 THEN initial_join_answers ELSE join_answers(i - 1)

\* C10: in a compiled query, the answer join of every REPEATING item, at
\* whatever position, equates the repeating-section id of the first item's
\* bridge (initial_join_answers) with that of the item's own bridge, and
\* names no bridge of a predecessor other than the first item.
C10_RepeatingJoinsFirstBridge ==
    (qpc = "built" /\ self_query.kind = "compiled")
        => LET items == join_list.val
               joins == JoinLines(self_query.lines)
           IN /\ Len(joins) = 2 * Len(items)
              /\ \A i \in DOMAIN items :
                    items[i].single_or_repeat = "REPEATING"
                        => LET h == joins[2 * i - 1]
                           IN /\ h.k = "JOIN_ANSWER"
                              /\ h.data_conn = Bridge(i)
                              /\ h.question_id = items[i].question_id
                              /\ h.left = Ref(initial_join_answers,
                                              "repeating_answer_section_id")
                              /\ h.right = Ref(Bridge(i), "repeating_answer_section_id")
                              /\ \A j \in 2..(i - 1) :
                                    h.left.alias # Bridge(j) /\ h.right.alias # Bridge(j)

C10_Witness ==
    /\ qpc = "built"
    /\ self_query.kind = "compiled"
    /\ Len(join_list.val) = 3
    /\ join_list.val[2].single_or_repeat = "SINGLE"
    /\ join_list.val[3].single_or_repeat = "REPEATING"

\* ---------------------------------------------------------------- C11
\* RDS.__init__ is past line 108 with a query compiled from the package
QueryCompiled == qpc \notin {"off", "unpack", "schema", "query"} /\ self_query.kind = "compiled"

\* the answer joins of a compiled query that introduce the bridge alias b
AnswerJoinsOf(joins, b) ==
    {j \in DOMAIN joins : joins[j].k = "JOIN_ANSWER" /\ joins[j].data_conn = b}

\* C11: in a compiled query every SINGLE item has exactly one answer join;
\* its predicate equates the id of the alias the source descriptor declares
\* with the application_id of the item's bridge, and the bridge's
\* question_id with the item's question_id.
C11_SingleJoinsSourceAlias ==
    QueryCompiled
        => LET items == join_list.val
               joins == JoinLines(self_query.lines)
           IN \A i \in DOMAIN items :
                 items[i].single_or_repeat = "SINGLE"
                     => /\ AnswerJoinsOf(joins, Bridge(i)) = {2 * i - 1}
                        /\ joins[2 * i - 1].left = Ref(Alias(source.val.name), "id")
                        /\ joins[2 * i - 1].right = Ref(Bridge(i), "application_id")
                        /\ joins[2 * i - 1].question_id = items[i].question_id

\* ---------------------------------------------------------------- C12
\* build_query has been called by RDS.__init__ and has returned or raised
QueryStageDone ==
    /\ qpc \notin {"off", "unpack", "schema", "query"}
    /\ ~(qpc = "raised" /\ qerr \in {"no_source", "no_join_list", "schema"})

\* C12: build_query called with a literal query together with a source
\* descriptor and a join list raises a configuration error and returns no
\* query.
C12_BothRejected ==
    (QueryStageDone /\ query.given /\ source.given /\ join_list.given)
        => /\ qpc = "raised"
           /\ qerr = "configuration"
           /\ self_query.kind = "none"

\* ---------------------------------------------------------------- C13
\* C13: when RDS is given neither a query package nor a literal query,
\* build_query raises a configuration error; build_query never returns an
\* absent query, and no RDS object, whatever auto is, is constructed holding
\* no query.
C13_NeitherRejected ==
    /\ (QueryStageDone /\ ~query.given /\ ~query_package.given)
          => (qpc = "raised" /\ qerr = "configuration")
    /\ (qpc \in {"built", "constructed"} => self_query.kind # "none")

\* ---------------------------------------------------------------- C14
\* the latest call was a query_to_df whose schema validation passed
Validated == method = "query_to_df" /\ check = "true"

\* the table the cursor of the latest query_to_df gave
Pulled == DataFrame(cursor.rows, cursor.columns)

\* the rows of t of which an identical row stands earlier in t
Repeats(t) == {r \in Range(t.rows) : \E q \in Range(t.rows) : q.ix < r.ix /\ q.val = r.val}

\* the rows of t are in the order of their index labels
InOriginalOrder(t) == \A i, j \in DOMAIN t.rows : i < j => t.rows[i].ix < t.rows[j].ix

\* C14: when schema validation passes, self.df holds exactly the first
\* occurrence of every distinct row of the result, in original order, and
\* self.duplicates holds exactly the rows removed (each row identical to an
\* earlier one), in original order; it is not empty when the result holds a
\* repeated row.
C14_DedupSplit ==
    Validated
        => /\ Range(df.rows) = Range(Pulled.rows) \ Repeats(Pulled)
           /\ Len(df.rows) = Cardinality(Range(df.rows))
           /\ InOriginalOrder(df)
           /\ Range(duplicates.rows) = Repeats(Pulled)
           /\ Len(duplicates.rows) = Cardinality(Repeats(Pulled))
           /\ InOriginalOrder(duplicates)
           /\ (Repeats(Pulled) # {} => duplicates.rows # <<>>)

\* ---------------------------------------------------------------- C15
\* C15: the deduplication step applied to a table that is already
\* deduplicated (the table query_to_df stored, or a result without repeated
\* rows) gives an empty Duplicate Table and a Clean Table equal to its
\* input, rows and order.
C15_DedupIdempotent ==
    Validated
        => /\ Dedup(df).df = df
           /\ Dedup(df).duplicates.rows = <<>>
           /\ (Repeats(Pulled) = {} => df = Pulled /\ duplicates.rows = <<>>)

C15_Witness ==
    /\ Validated
    /\ Len(cursor.rows) = 3
    /\ Len(df.rows) = 2
    /\ df.rows[2].ix = 2

\* ---------------------------------------------------------------- C16
\* check_schema has run in the latest method call and has returned
Checked == check \in {"true", "false"}

\* the expected columns absent from the table check_schema was given
Absent == Range(self_schema) \ Range(checked_df.columns)

\* C16: after every call of check_schema on a non-empty table, in whatever
\* sequence of check_schema and query_to_df calls on the object, the return
\* value is true iff no expected column is absent from the table, and
\* fields_missing holds exactly the absent expected columns, each once.
C16_MissingFieldsExact ==
    Checked
        => /\ (check = "true" <=> Absent = {})
           /\ Range(fields_missing) = Absent
           /\ Len(fields_missing) = Cardinality(Absent)

\* the return value alone
C16_ReturnValue == Checked => (check = "true" <=> Absent = {})

\* the list after the first call on an object whose schema names no column twice
C16_FirstCall ==
    (Checked /\ pulls <= 1 /\ Len(self_schema) = Cardinality(Range(self_schema)))
        => Range(fields_missing) = Absent /\ Len(fields_missing) = Cardinality(Absent)

\* ---------------------------------------------------------------- C17
\* the latest method call was a query_to_df that called rds_sql_pull
PullCalled == method = "query_to_df" /\ qpc = "constructed" /\ self_query.kind # "none"

\* C17: when the cursor throws, the error rds_sql_pull hands its caller is
\* the execution error; when the rows were fetched but do not fit the
\* column names, it is the materialization error and not the execution one.
C17_PullErrorsDistinct ==
    PullCalled
        => /\ (cursor.fails => perr = "execution")
           /\ (~cursor.fails /\ ShapeMismatch(cursor) => perr = "materialization")

\* ---------------------------------------------------------------- C18
\* the entries of the select list of a compiled query, in the order of the text
SelectList(lines) == SelectSeq(lines, LAMBDA l : l.k = "COL")

\* C18: for a non-empty join list the select list of the compiled query has
\* one entry per declared field, every entry but the final one is followed
\* by a separator, and the final entry alone is not, also when the last
\* join item declares several fields in one field map.
C18_SeparatorsButLast ==
    (QueryCompiled /\ join_list.val # <<>>)
        => LET cols == SelectList(self_query.lines)
           IN /\ Len(cols) = Cardinality(Declared(query_package.val))
              /\ \A i \in DOMAIN cols : cols[i].comma <=> i < Len(cols)

\* the same for join lists whose last item declares a single field, in a
\* field map no other map of the item equals
C18_SingleLastField ==
    (QueryCompiled /\ join_list.val # <<>>
       /\ join_list.val[Len(join_list.val)] = hotel_name)
        => LET cols == SelectList(self_query.lines)
           IN /\ Len(cols) = Cardinality(Declared(query_package.val))
              /\ \A i \in DOMAIN cols : cols[i].comma <=> i < Len(cols)

\* ---------------------------------------------------------------- C19
\* build_query has been called with a package and no literal query
CompileCalled == QueryStageDone /\ ~query.given /\ source.given /\ join_list.given

\* C19: build_query fails with the error of the stage that failed: the
\* join-list field error for an item without fields, the join-clause error
\* for an item without cardinality, question id or answer table, the
\* filter error for a source without project, the ordering error for a
\* source without order; no other exception leaves it.
C19_StageErrors ==
    CompileCalled
        => LET items == join_list.val
               src == source.val
           IN /\ (MissingFields(items) => qerr = "join_fields")
              /\ (~MissingFields(items) /\ MissingKeys(items) => qerr = "join_clause")
              /\ (~MissingFields(items) /\ ~MissingKeys(items) /\ ~src.has_project
                     => qerr = "project_filter")
              /\ (~MissingFields(items) /\ ~MissingKeys(items) /\ src.has_project
                     /\ ~src.has_order => qerr = "order")
              /\ (qpc = "raised" =>
                     qerr \in {"join_fields", "join_clause", "project_filter", "order",
                               "execution", "empty_from_query", "schema_mismatch"})

\* the two stages whose except clause binds the exception
C19_BoundStages ==
    CompileCalled
        => /\ (MissingFields(join_list.val) => qerr = "join_fields")
           /\ (~MissingFields(join_list.val) /\ MissingKeys(join_list.val)
                  => qerr = "join_clause")

\* ---------------------------------------------------------------- C20
\* C20: when the monitor returns without raising and sub-folders exist, the
\* count of its most recent listing is at most the limit, and that listing
\* is the store's; with limit >= 1 and a store whose listings reflect every
\* delete, the listing after a delete always shows a sub-folder, so the call
\* never fails on a listing without sub-folders.
C20_ReturnsWithinLimit ==
    /\ (MonitorReturned /\ subfolders # <<>>)
          => /\ folder_count <= limit
             /\ folder_count = Len(subfolders)
             /\ Range(subfolders) = CommonPrefixes(store)
    /\ (limit >= 1 /\ MonitorRunning /\ deletes > 0) => subfolders # <<>>
    /\ limit >= 1 => ~(MonitorRaised /\ err = "no_prefixes")

C20_Witness ==
    /\ call = "rotate"
    /\ MonitorReturned
    /\ limit >= 1
    /\ deletes > 0
    /\ subfolders # <<>>
    /\ folder_count = limit

\* ---------------------------------------------------------------- C21
\* the keys outside the archive prefix
Outside(s) == {k \in DOMAIN s : k.area # "archive"}

\* C21: while the monitor runs and when it has returned or raised, the call
\* has issued no put; every key gone from the store is the key of a
\* sub-folder its listing of the archive prefix returned; every object left
\* is as it was, and the objects outside the archive prefix, the active
\* file among them, are all there and unchanged.
C21_RotationFrame ==
    (MonitorRunning \/ MonitorReturned \/ MonitorRaised)
        => /\ puts = <<>>
           /\ deleted \subseteq CommonPrefixes(store0)
           /\ DOMAIN store \subseteq DOMAIN store0
           /\ \A k \in DOMAIN store0 \ DOMAIN store :
                 k.area = "archive" /\ k.folder \in deleted /\ k = FolderKey(k.folder)
           /\ \A k \in DOMAIN store : store[k] = store0[k]
           /\ Outside(store) = Outside(store0)

C21_Witness ==
    /\ call = "rotate"
    /\ MonitorReturned
    /\ deletes > 0
    /\ ActiveKey("report.csv") \in DOMAIN store
    /\ \E k \in DOMAIN store : k.area = "archive" /\ k.file # "/"

====
